---------------------------- MODULE Spec2Model ----------------------------
(***************************************************************************)
(* Model of the Azure provisioning glue of the IoT workbench extension:    *)
(*   IoTHub.provision            (src/unnamed/part_000)                    *)
(*   AzureFunctions.provision    (src/src/Models/AzureFunctions.ts)        *)
(*   AzureFunctions.deploy       (src/src/Models/AzureFunctions.ts)        *)
(*   AzureOperator.Provision/Deploy (src/src/AzureOperator.ts)             *)
(*                                                                         *)
(* Strings are sequences of tokens.  The tokens are chosen so that a       *)
(* literal of one of the code's regular expressions ("SharedAccessKey=",   *)
(* "/resourceGroups/", "/sites/") occurs in the text exactly where its     *)
(* tokens occur consecutively in the sequence.  A missing value            *)
(* (JavaScript undefined) of a config key or of a settings dictionary is a *)
(* key outside the DOMAIN of the function that models the dictionary.      *)
(***************************************************************************)
EXTENDS Integers, Sequences, FiniteSets, TLC

VARIABLES
  config,                 \* ConfigHandler's store: config key -> string
  last,                   \* record of the last provision() call and its result
  hubSucceeded,           \* history: some IoTHub.provision() has returned true
  azureAccountExtension,  \* AzureFunctions.azureAccountExtension is defined
  arg,                    \* SpecParse: the connection string under test
  rootPath,               \* vscode.workspace.rootPath is defined
  projects,               \* the IoTProject objects AzureOperator has created
  opLog,                  \* what each AzureOperator command call has done
  channel,                \* AzureFunctions.channel is defined
  calls,                  \* the AzureFunctions.deploy() invocations
  intervals,              \* the active setInterval timers
  output                  \* the text appended to the output channel

vars == <<config, last, hubSucceeded, azureAccountExtension, arg, rootPath,
          projects, opLog, channel, calls, intervals, output>>

hubVars == <<config, last, hubSucceeded, azureAccountExtension, arg>>
operatorVars == <<rootPath, projects, opLog>>
deployVars == <<channel, calls, intervals, output>>

---------------------------------------------------------------------------
(* Bounds of the model *)

\* longest connection string SpecParse draws token by token
MaxLen == 5
\* most fields of a connection string SpecParse builds field by field
MaxFields == 3
\* AzureOperator command invocations per behaviour
MaxInvocations == 2
\* AzureFunctions.deploy() invocations per behaviour
MaxCalls == 2
\* '.' the timers append per behaviour
MaxDots == 2

---------------------------------------------------------------------------
(* Strings and String.prototype.match *)

EmptyMap == <<>>

\* obj[k] = v on a dictionary
Put(m, k, v) == (k :> v) @@ m

\* JavaScript truthiness of an optional string: defined and not ''
Truthy(m, k) == k \in DOMAIN m /\ m[k] # <<>>

\* the literal lit stands at position i of s
LitAt(s, lit, i) ==
  /\ i + Len(lit) - 1 <= Len(s)
  /\ SubSeq(s, i, i + Len(lit) - 1) = lit

\* index of the leftmost occurrence of lit in s at or after i, 0 when none:
\* a regular expression without the g flag is tried at each position from the left
RECURSIVE IndexOf(_, _, _)
IndexOf(s, lit, i) ==
  IF i + Len(lit) - 1 > Len(s) THEN 0
  ELSE IF LitAt(s, lit, i) THEN i
  ELSE IndexOf(s, lit, i + 1)

\* the greedy class [^stop]* from position i
RECURSIVE TakeWhileNot(_, _, _)
TakeWhileNot(s, i, stop) ==
  IF i > Len(s) \/ s[i] = stop THEN <<>>
  ELSE <<s[i]>> \o TakeWhileNot(s, i + 1, stop)

\* s.match(/lit([^stop]*)/): null, or the array [whole match, group 1]
Match(s, lit, stop) ==
  LET i == IndexOf(s, lit, 1)
  IN IF i = 0 THEN [isNull |-> TRUE, arr |-> <<>>]
     ELSE LET g == TakeWhileNot(s, i + Len(lit), stop)
          IN [isNull |-> FALSE, arr |-> <<lit \o g, g>>]

\* !matches || matches.length < 2
NoCapture(m) == m.isNull \/ Len(m.arr) < 2

SharedAccessKeyLiteral == <<"SharedAccessKey", "=">>

\* a pattern that forgets the '=' of the field name: /SharedAccessKey[^=]*=([^;]*)/
SharedAccessKeyMatchLoose(s) ==
  LET i == IndexOf(s, <<"SharedAccessKey">>, 1)
      skipped == IF i = 0 THEN <<>> ELSE TakeWhileNot(s, i + 1, "=")
      j == i + 1 + Len(skipped)
  IN IF i = 0 \/ j > Len(s) THEN [isNull |-> TRUE, arr |-> <<>>]
     ELSE LET g == TakeWhileNot(s, j + 1, ";")
          IN [isNull |-> FALSE, arr |-> <<SubSeq(s, i, j) \o g, g>>]

\* iotHubConnectionString.match(/SharedAccessKey=([^;]*)/)
SharedAccessKeyMatch(s) == Match(s, SharedAccessKeyLiteral, ";")

\* functionAppId.match(/\/resourceGroups\/([^\/]*)/)
ResourceGroupMatch(s) == Match(s, <<"/", "resourceGroups", "/">>, "/")

\* functionAppId.match(/\/sites\/([^\/]*)/)
SiteNameMatch(s) == Match(s, <<"/", "sites", "/">>, "/")

---------------------------------------------------------------------------
(* ConfigHandler *)

HubKeys == {"iotHubConnectionString", "eventHubConnectionString",
            "eventHubConnectionPath"}

\* ConfigHandler.update(key, value)
ConfigUpdate(cfg, key, value) == Put(cfg, key, value)

\* ConfigHandler.get(key) || ''
ConfigGetOrEmpty(cfg, key) == IF key \in DOMAIN cfg THEN cfg[key] ELSE <<>>

---------------------------------------------------------------------------
(* IoTHub.provision *)

\* the template literal of the Event Hub-compatible connection string
EventHubConnectionString(endpoint, sharedAccessKey) ==
  <<"Endpoint=">> \o endpoint
    \o <<";SharedAccessKeyName=iothubowner;SharedAccessKey=">>
    \o sharedAccessKey

\* what a call leaves behind: its result and the calls it made
Call(op, outcome, error, before, made) ==
  [op |-> op, outcome |-> outcome, error |-> error, before |-> before,
   made |-> made]

NoCall == Call("none", "none", "", EmptyMap, [in |-> "none"])

\* the three updates, in the code's order
WriteHubConfig(cfg, hub, eventHubConnectionString) ==
  LET c1 == ConfigUpdate(cfg, "iotHubConnectionString", hub.conn)
      c2 == ConfigUpdate(c1, "eventHubConnectionString",
                         eventHubConnectionString)
  IN ConfigUpdate(c2, "eventHubConnectionPath", hub.path)

\* the checks of IoTHub.provision() up to its first ConfigHandler.update:
\* the result, and the derived connection string when all of them pass.
\*   selection: "cancel" (showQuickPick gave undefined), "select" or "create"
\*   toolkit:   getExtension(extensionName.Toolkit) is defined
\*   answer:    what selectIoTHub/createIoTHub gave: [kind |-> "reject"],
\*              [kind |-> "null"] or [kind |-> "hub", hub |-> ...]; a hub's
\*              conn is <<>> when iotHubConnectionString is missing or ''
IoTHubChecks(selection, toolkit, answer) ==
  LET R(outcome, error, derived) ==
        [outcome |-> outcome, error |-> error, derived |-> derived]
  IN IF selection = "cancel" THEN R("false", "", <<>>)
     ELSE IF ~toolkit
     THEN R("throw", "Azure IoT Toolkit is not installed", <<>>)
     ELSE IF answer.kind = "reject" THEN R("throw", "toolkit", <<>>)
     ELSE IF answer.kind = "hub" /\ answer.hub.conn # <<>>
     THEN LET sharedAccessKeyMatches == SharedAccessKeyMatch(answer.hub.conn)
          IN IF NoCapture(sharedAccessKeyMatches)
             THEN R("throw", "Cannot parse shared access key", <<>>)
             ELSE IF ~answer.hub.hasProperties
             THEN R("throw", "TypeError", <<>>)
             ELSE R("true", "",
                    EventHubConnectionString(answer.hub.endpoint,
                                             sharedAccessKeyMatches.arr[2]))
     ELSE IF answer.kind = "null" THEN R("false", "", <<>>)
     ELSE R("throw", "IoT Hub provision failed", <<>>)

\* a slip: the hub's connection string is persisted as soon as the toolkit
\* has answered, before it is validated
IoTHubConfigAfterEager(cfg, checks, answer) ==
  IF checks.outcome = "true"
  THEN WriteHubConfig(cfg, answer.hub, checks.derived)
  ELSE IF answer.kind = "hub" /\ checks.error # ""
  THEN ConfigUpdate(cfg, "iotHubConnectionString", answer.hub.conn)
  ELSE cfg

\* a slip: the last of the three updates is left out
IoTHubConfigAfterTwo(cfg, checks, answer) ==
  IF checks.outcome = "true"
  THEN ConfigUpdate(
         ConfigUpdate(cfg, "iotHubConnectionString", answer.hub.conn),
         "eventHubConnectionString", checks.derived)
  ELSE cfg

\* the config IoTHub.provision() leaves: the updates come after every check
IoTHubConfigAfter(cfg, checks, answer) ==
  IF checks.outcome = "true"
  THEN WriteHubConfig(cfg, answer.hub, checks.derived)
  ELSE cfg

\* the lines IoTHub.provision() appends to its output channel: the notice
\* before createIoTHub, JSON.stringify(iothub) and the closing line
IoTHubLines(selection, toolkit, answer, outcome) ==
  (IF selection = "create" /\ toolkit
   THEN <<"Creating new IoT Hub...">> ELSE <<>>)
    \o (IF selection # "cancel" /\ toolkit /\ answer.kind = "hub"
           /\ answer.hub.conn # <<>>
        THEN <<"JSON.stringify(iothub, null, 2)">> ELSE <<>>)
    \o (IF outcome = "true" THEN <<"IoT Hub provision succeeded.">> ELSE <<>>)

\* IoTHub.provision(): <<record of the call, config after the call>>
IoTHubProvision(cfg, selection, toolkit, answer) ==
  LET checks == IoTHubChecks(selection, toolkit, answer)
      made == [in |-> "hub", selection |-> selection, toolkit |-> toolkit,
               answer |-> answer,
               lines |-> IoTHubLines(selection, toolkit, answer,
                                     checks.outcome)]
  IN <<Call("IoTHub", checks.outcome, checks.error, cfg, made),
       IoTHubConfigAfter(cfg, checks, answer)>>

---------------------------------------------------------------------------
(* AzureFunctions.provision *)

\* getSubscriptionList(): throws without the account extension, else one
\* quick pick item per filter, or the single placeholder item
GetSubscriptionList(ext, filters) ==
  IF ~ext THEN [threw |-> TRUE, list |-> <<>>]
  ELSE IF Len(filters) = 0
  THEN [threw |-> FALSE,
        list |-> <<[label |-> "No subscription found", description |-> <<>>]>>]
  ELSE [threw |-> FALSE,
        list |-> [i \in 1..Len(filters) |->
                    [label |-> filters[i].displayName,
                     description |-> filters[i].subscriptionId]]]

\* the credentials of the first filter with that subscription id
RECURSIVE FindCredential(_, _, _)
FindCredential(filters, subscriptionId, i) ==
  IF i > Len(filters) THEN "undefined"
  ELSE IF filters[i].subscriptionId = subscriptionId
  THEN (IF filters[i].credentials THEN "credential" ELSE "undefined")
  ELSE FindCredential(filters, subscriptionId, i + 1)

\* getCredentialFromSubscriptionId(subscriptionId)
GetCredentialFromSubscriptionId(ext, filters, subscriptionId) ==
  IF ~ext THEN "throw: Azure account extension is not found"
  ELSE IF subscriptionId = <<>> THEN "throw: Subscription ID is required"
  ELSE FindCredential(filters, subscriptionId, 1)

\* a slip: only a cancelled quick pick is checked
NoSubscriptionPickedCancelOnly(picked, subscription) == ~picked

\* !subscription || !subscription.description
NoSubscriptionPicked(picked, subscription) ==
  ~picked \/ subscription.description = <<>>

\* a slip: the check of the two values is left out
MissingEventHubConfigUnchecked(cfg) == FALSE

\* !eventHubConnectionString || !eventHubConnectionPath
MissingEventHubConfig(cfg) ==
  \/ ~Truthy(cfg, "eventHubConnectionString")
  \/ ~Truthy(cfg, "eventHubConnectionPath")

\* a slip: the settings are built from scratch
AppSettingsToSendFresh(listed, cfg) ==
  Put(Put(Put(EmptyMap,
              "eventHubConnectionString",
              ConfigGetOrEmpty(cfg, "eventHubConnectionString")),
          "eventHubConnectionPath",
          ConfigGetOrEmpty(cfg, "eventHubConnectionPath")),
      "iotHubConnectionString",
      ConfigGetOrEmpty(cfg, "iotHubConnectionString"))

\* appSettings.properties after the three assignments
AppSettingsToSend(listed, cfg) ==
  LET properties == IF listed.hasProperties THEN listed.properties
                    ELSE EmptyMap
  IN Put(Put(Put(properties,
                 "eventHubConnectionString",
                 ConfigGetOrEmpty(cfg, "eventHubConnectionString")),
             "eventHubConnectionPath",
             ConfigGetOrEmpty(cfg, "eventHubConnectionPath")),
         "iotHubConnectionString",
         ConfigGetOrEmpty(cfg, "iotHubConnectionString"))

\* a slip: the id is stored only once every check has passed
StoreFunctionAppIdLate(cfg, functionAppId, outcome) ==
  IF outcome = "true" THEN ConfigUpdate(cfg, "functionAppId", functionAppId)
  ELSE cfg

\* ConfigHandler.update(ConfigKey.functionAppId, functionAppId): the first
\* statement after the id is known, whatever the call's outcome is
StoreFunctionAppId(cfg, functionAppId, outcome) ==
  ConfigUpdate(cfg, "functionAppId", functionAppId)

\* AzureFunctions.provision(): <<record of the call, config after the call>>.
\*   ext:      azureAccountExtension is defined
\*   filters:  azureAccountExtension.filters
\*   pick:     0 when the quick pick is cancelled, else the item's index
\*   created:  what azureFunctions.createFunctionApp gave: [kind |-> "reject"],
\*             [kind |-> "undefined"] or [kind |-> "id", id |-> ...]
\*   listed:   what listApplicationSettings gave: kind "reject" or "ok"
\*   updateOk: updateApplicationSettings resolves
AzureFunctionsProvision(cfg, ext, filters, pick, created, listed, updateOk) ==
  LET subscriptionList == GetSubscriptionList(ext, filters)
      picked == pick # 0
      subscription ==
        IF picked THEN subscriptionList.list[pick]
        ELSE [label |-> "", description |-> <<>>]
      subscriptionId == subscription.description
      functionAppId == created.id
      credential == GetCredentialFromSubscriptionId(ext, filters, subscriptionId)
      resourceGroupMatches == ResourceGroupMatch(functionAppId)
      siteNameMatches == SiteNameMatch(functionAppId)
      target == <<resourceGroupMatches.arr[2], siteNameMatches.arr[2]>>
      sent == AppSettingsToSend(listed, cfg)
      Made(createCalled, listCalled, updateCalled) ==
        [in |-> "functions", ext |-> ext, filters |-> filters, pick |-> pick,
         created |-> created, listed |-> listed,
         createCalled |-> createCalled,
         createArg |-> IF createCalled THEN subscriptionId ELSE <<>>,
         listCalled |-> listCalled,
         updateCalled |-> updateCalled,
         target |-> IF listCalled THEN target ELSE <<>>,
         sent |-> IF updateCalled THEN sent ELSE EmptyMap]
      R(outcome, error, made, stored) ==
        <<Call("AzureFunctions", outcome, error, cfg, made),
          IF stored THEN StoreFunctionAppId(cfg, functionAppId, outcome)
          ELSE cfg>>
  IN IF subscriptionList.threw
     THEN R("throw", "Azure account extension is not found",
            Made(FALSE, FALSE, FALSE), FALSE)
     ELSE IF NoSubscriptionPicked(picked, subscription)
     THEN R("false", "", Made(FALSE, FALSE, FALSE), FALSE)
     ELSE IF created.kind = "reject"
     THEN R("throw", "azureFunctions.createFunctionApp",
            Made(TRUE, FALSE, FALSE), FALSE)
     ELSE IF created.kind = "undefined" \/ functionAppId = <<>>
     THEN R("throw", "Unable to create Azure Functions application",
            Made(TRUE, FALSE, FALSE), FALSE)
     ELSE IF MissingEventHubConfig(cfg)
     THEN R("throw", "No event hub path or connection string found",
            Made(TRUE, FALSE, FALSE), TRUE)
     ELSE IF credential # "credential"
     THEN R("throw", IF credential = "undefined"
                     THEN "Unable to get credential for the subscription"
                     ELSE credential,
            Made(TRUE, FALSE, FALSE), TRUE)
     ELSE IF NoCapture(resourceGroupMatches)
     THEN R("throw", "Cannot parse resource group from function app ID",
            Made(TRUE, FALSE, FALSE), TRUE)
     ELSE IF NoCapture(siteNameMatches)
     THEN R("throw", "Cannot parse function app name from function app ID",
            Made(TRUE, FALSE, FALSE), TRUE)
     ELSE IF listed.kind = "reject"
     THEN R("throw", "listApplicationSettings",
            Made(TRUE, TRUE, FALSE), TRUE)
     ELSE IF ~updateOk
     THEN R("throw", "updateApplicationSettings",
            Made(TRUE, TRUE, TRUE), TRUE)
     ELSE R("true", "", Made(TRUE, TRUE, TRUE), TRUE)

---------------------------------------------------------------------------
(* The environment of the provision() calls: what the user, the Azure IoT  *)
(* Toolkit, the Azure Functions extension and Azure can answer             *)

ConnOwner == <<"HostName", "=", "h", ";", "SharedAccessKey", "Name", "=",
               "iothubowner", ";", "SharedAccessKey", "=", "k1">>
ConnKeyFirst == <<"SharedAccessKey", "=", "k2", ";", "HostName", "=", "h">>
ConnNoKey == <<"HostName", "=", "h", ";", "SharedAccessKey", "Name", "=",
               "iothubowner">>

Hub(conn, hasProperties, endpoint, path) ==
  [conn |-> conn, hasProperties |-> hasProperties, endpoint |-> endpoint,
   path |-> path]

Hubs == {Hub(ConnOwner, TRUE, <<"sb://e1">>, <<"p1">>),
         Hub(ConnKeyFirst, TRUE, <<"sb://e2">>, <<"p2">>),
         Hub(ConnKeyFirst, TRUE, <<"sb://e2">>, <<>>),
         Hub(ConnNoKey, TRUE, <<"sb://e1">>, <<"p1">>),
         Hub(ConnOwner, FALSE, <<>>, <<>>),
         Hub(<<>>, TRUE, <<"sb://e1">>, <<"p1">>)}

ToolkitAnswers ==
  {[kind |-> "reject"], [kind |-> "null"]}
    \cup {[kind |-> "hub", hub |-> h] : h \in Hubs}

Selections == {"cancel", "select", "create"}

Filter(displayName, subscriptionId, credentials) ==
  [displayName |-> displayName, subscriptionId |-> subscriptionId,
   credentials |-> credentials]

FilterLists ==
  {<<>>,
   <<Filter("one", <<"sub1">>, TRUE)>>,
   <<Filter("one", <<"sub1">>, TRUE), Filter("two", <<"sub2">>, FALSE)>>}

IdFull == <<"/", "subscriptions", "/", "sub1", "/", "resourceGroups", "/",
            "rg1", "/", "providers", "/", "Microsoft.Web", "/", "sites", "/",
            "app1">>
IdNoGroup == <<"/", "subscriptions", "/", "sub1", "/", "sites", "/", "app2">>
IdNoSite == <<"/", "subscriptions", "/", "sub1", "/", "resourceGroups", "/",
              "rg1">>

Created ==
  {[kind |-> "reject", id |-> <<>>], [kind |-> "undefined", id |-> <<>>],
   [kind |-> "id", id |-> <<>>]}
    \cup {[kind |-> "id", id |-> i] : i \in {IdFull, IdNoGroup, IdNoSite}}

Listed ==
  {[kind |-> "reject", hasProperties |-> FALSE, properties |-> EmptyMap],
   [kind |-> "ok", hasProperties |-> FALSE, properties |-> EmptyMap],
   [kind |-> "ok", hasProperties |-> TRUE,
    properties |-> [FUNCTIONS_EXTENSION_VERSION |-> <<"~1">>]],
   [kind |-> "ok", hasProperties |-> TRUE,
    properties |-> [FUNCTIONS_EXTENSION_VERSION |-> <<"~1">>,
                    eventHubConnectionString |-> <<"old">>]]}

---------------------------------------------------------------------------
(* The provision() calls as actions *)

InitHub ==
  /\ config = EmptyMap
  /\ last = NoCall
  /\ hubSucceeded = FALSE
  /\ arg = <<>>

InitOperator ==
  /\ rootPath = TRUE
  /\ projects = <<>>
  /\ opLog = <<>>

InitDeploy ==
  /\ channel = TRUE
  /\ calls = <<>>
  /\ intervals = {}
  /\ output = <<>>

Init ==
  /\ InitHub
  /\ azureAccountExtension \in BOOLEAN
  /\ InitOperator
  /\ InitDeploy

\* one call of IoTHub.provision()
IoTHubProvisionCall ==
  \E selection \in Selections, toolkit \in BOOLEAN, answer \in ToolkitAnswers :
    LET r == IoTHubProvision(config, selection, toolkit, answer)
    IN /\ last' = r[1]
       /\ config' = r[2]
       /\ hubSucceeded' = (hubSucceeded \/ r[1].outcome = "true")
       /\ UNCHANGED <<azureAccountExtension, arg, operatorVars, deployVars>>

\* one call of AzureFunctions.provision()
AzureFunctionsProvisionCall ==
  \E filters \in FilterLists, created \in Created, listed \in Listed,
     updateOk \in BOOLEAN :
    \E pick \in 0..Len(GetSubscriptionList(azureAccountExtension, filters).list) :
      LET r == AzureFunctionsProvision(config, azureAccountExtension, filters,
                                       pick, created, listed, updateOk)
      IN /\ last' = r[1]
         /\ config' = r[2]
         /\ UNCHANGED <<hubSucceeded, azureAccountExtension, arg, operatorVars,
                        deployVars>>

Next == IoTHubProvisionCall \/ AzureFunctionsProvisionCall

Spec == Init /\ [][Next]_vars

---------------------------------------------------------------------------
(* The SharedAccessKey field, stated without the scan of Match *)

\* the positions where the text 'SharedAccessKey=' starts
KeyOccurrences(s) ==
  {i \in 1..Len(s) : i < Len(s) /\ s[i] = "SharedAccessKey" /\ s[i + 1] = "="}

HasKeyField(s) == KeyOccurrences(s) # {}

FirstKeyOccurrence(s) ==
  CHOOSE i \in KeyOccurrences(s) : \A j \in KeyOccurrences(s) : i <= j

\* the text after the first 'SharedAccessKey=' up to the next ';' or the end
KeyFieldValue(s) ==
  LET from == FirstKeyOccurrence(s) + 2
      stops == {j \in from..Len(s) : s[j] = ";"}
      to == IF stops = {} THEN Len(s)
            ELSE (CHOOSE j \in stops : \A k \in stops : j <= k) - 1
  IN SubSeq(s, from, to)

---------------------------------------------------------------------------
(* Properties of the provision() calls, checked under Spec *)

HubCall == last.op = "IoTHub"
FunctionsCall == last.op = "AzureFunctions"

SameValue(m1, m2, k) ==
  /\ (k \in DOMAIN m1) = (k \in DOMAIN m2)
  /\ k \in DOMAIN m1 => m1[k] = m2[k]

\* C1: whenever IoTHub.provision() returns true, the call has written all three
\* keys: iotHubConnectionString is the toolkit's connection string,
\* eventHubConnectionString the derived Event Hub-compatible string and
\* eventHubConnectionPath the events endpoint's path
HubTrueWritesThreeKeys ==
  (HubCall /\ last.outcome = "true") =>
    LET hub == last.made.answer.hub
    IN /\ last.made.answer.kind = "hub"
       /\ HubKeys \subseteq DOMAIN config
       /\ config["iotHubConnectionString"] = hub.conn
       /\ config["eventHubConnectionString"] =
            <<"Endpoint=">> \o hub.endpoint
              \o <<";SharedAccessKeyName=iothubowner;SharedAccessKey=">>
              \o KeyFieldValue(hub.conn)
       /\ config["eventHubConnectionPath"] = hub.path
       /\ SameValue(config, last.before, "functionAppId")

\* a successful call that replaced all three values of an earlier one
HubTrueOverwrites ==
  /\ HubCall /\ last.outcome = "true"
  /\ HubKeys \subseteq DOMAIN last.before
  /\ \A k \in HubKeys : config[k] # last.before[k]

InjectedKeys == {"eventHubConnectionString", "eventHubConnectionPath",
                 "iotHubConnectionString"}

\* C3: whenever AzureFunctions.provision() returns true, the settings sent to
\* updateApplicationSettings for the created function app hold the three
\* injected keys with the values in config ('' for a missing
\* iotHubConnectionString) and every other listed setting unchanged
FunctionsTrueSendsSettings ==
  (FunctionsCall /\ last.outcome = "true") =>
    LET sent == last.made.sent
        listed == IF last.made.listed.hasProperties
                  THEN last.made.listed.properties ELSE EmptyMap
    IN /\ last.made.updateCalled
       /\ last.made.target = <<<<"rg1">>, <<"app1">>>>
       /\ last.made.created.id = IdFull
       /\ DOMAIN sent = DOMAIN listed \cup InjectedKeys
       /\ \A k \in InjectedKeys :
            sent[k] = IF k \in DOMAIN config THEN config[k] ELSE <<>>
       /\ \A k \in DOMAIN listed \ InjectedKeys : sent[k] = listed[k]

\* a successful call that kept a listed setting and replaced a stale one
FunctionsTrueKeepsListed ==
  /\ FunctionsCall /\ last.outcome = "true"
  /\ last.made.listed.hasProperties
  /\ "eventHubConnectionString" \in DOMAIN last.made.listed.properties
  /\ last.made.sent["FUNCTIONS_EXTENSION_VERSION"] = <<"~1">>
  /\ last.made.sent["eventHubConnectionString"] # <<"old">>

NoEventHub == "No event hub path or connection string found"

\* C6 as stated: AzureFunctions.provision() returns true only after an
\* IoTHub.provision() has returned true, and while none has, every call of it
\* throws 'No event hub path or connection string found.' and writes no
\* application settings
FunctionsAlwaysThrowsBeforeHub ==
  FunctionsCall =>
    /\ last.outcome = "true" => hubSucceeded
    /\ ~hubSucceeded =>
         /\ last.outcome = "throw" /\ last.error = NoEventHub
         /\ ~last.made.updateCalled

\* C6 amended: AzureFunctions.provision() returns true, or writes application
\* settings, only after an IoTHub.provision() has returned true; while none
\* has, a call that gets a non-empty id from createFunctionApp throws
\* 'No event hub path or connection string found.'
FunctionsNeedsHub ==
  FunctionsCall =>
    /\ (last.outcome = "true" \/ last.made.updateCalled) => hubSucceeded
    /\ (/\ ~hubSucceeded
        /\ last.made.createCalled
        /\ last.made.created.kind = "id"
        /\ last.made.created.id # <<>>) =>
         /\ last.outcome = "throw" /\ last.error = NoEventHub
         /\ ~last.made.listCalled

\* a call that got an id before any hub was provisioned
FunctionsThrowsBeforeHub ==
  /\ FunctionsCall /\ ~hubSucceeded
  /\ last.made.created.id = IdFull
  /\ last.error = NoEventHub

\* the user cancelled the quick pick, or picked the placeholder item
CancelledOrPlaceholder ==
  /\ FunctionsCall
  /\ last.made.ext
  /\ \/ last.made.pick = 0
     \/ last.made.pick = 1 /\ last.made.filters = <<>>

\* C7: when the subscription quick pick is cancelled or the 'No subscription
\* found' item is picked, AzureFunctions.provision() returns false without
\* calling createFunctionApp, listApplicationSettings or
\* updateApplicationSettings and without changing the config
FunctionsCancelIsInert ==
  CancelledOrPlaceholder =>
    /\ last.outcome = "false"
    /\ ~last.made.createCalled
    /\ ~last.made.listCalled
    /\ ~last.made.updateCalled
    /\ config = last.before

\* the placeholder item picked with a provisioned hub in config
PlaceholderPicked ==
  /\ CancelledOrPlaceholder
  /\ last.made.pick = 1
  /\ HubKeys \subseteq DOMAIN config

\* C8: whenever IoTHub.provision() returns false or throws, the call has left
\* iotHubConnectionString, eventHubConnectionString and eventHubConnectionPath
\* as they were
HubFailureWritesNothing ==
  (HubCall /\ last.outcome \in {"false", "throw"}) =>
    \A k \in HubKeys : SameValue(config, last.before, k)

\* an unparsable connection string met after a successful provision
HubParseFailure ==
  /\ HubCall
  /\ last.error = "Cannot parse shared access key"
  /\ HubKeys \subseteq DOMAIN config

\* C9: once createFunctionApp has given a non-empty id, config functionAppId is
\* that id whether provision() returns true or throws; when it gives no id,
\* provision() throws and functionAppId is unchanged
FunctionAppIdStoredFirst ==
  (FunctionsCall /\ last.made.createCalled /\ last.made.created.kind # "reject")
    =>
    IF last.made.created.kind = "id" /\ last.made.created.id # <<>>
    THEN /\ "functionAppId" \in DOMAIN config
         /\ config["functionAppId"] = last.made.created.id
         /\ last.outcome \in {"true", "throw"}
    ELSE /\ last.outcome = "throw"
         /\ last.error = "Unable to create Azure Functions application"
         /\ SameValue(config, last.before, "functionAppId")

\* a call that threw after validation and yet replaced the stored id
FunctionAppIdStoredThenThrow ==
  /\ FunctionsCall /\ last.outcome = "throw"
  /\ last.error = "Cannot parse resource group from function app ID"
  /\ "functionAppId" \in DOMAIN last.before
  /\ last.before["functionAppId"] = IdFull
  /\ config["functionAppId"] = IdNoGroup

---------------------------------------------------------------------------
(* SpecParse: IoTHub.provision() on every connection string of the bounds *)

Alphabet == {"SharedAccessKey", "=", ";", "Name", "k"}

\* every text of at most MaxLen tokens
Texts == UNION {[1..n -> Alphabet] : n \in 0..MaxLen}

FieldKeys == {<<"HostName">>, <<"SharedAccessKey", "Name">>,
              <<"SharedAccessKey">>}
FieldValues == {<<>>, <<"iothubowner">>, <<"k", "=">>}
Fields == [key : FieldKeys, value : FieldValues]

\* the fields as key=value, joined by ';'
RECURSIVE Join(_)
Join(fields) ==
  IF Len(fields) = 0 THEN <<>>
  ELSE LET f == fields[1]
           rest == Join(Tail(fields))
       IN f.key \o <<"=">> \o f.value
            \o (IF Len(fields) = 1 THEN <<>> ELSE <<";">> \o rest)

FieldLists == UNION {[1..n -> Fields] : n \in 1..MaxFields}

Args == {[text |-> t, built |-> FALSE, fields |-> <<>>] : t \in Texts}
          \cup {[text |-> Join(fs), built |-> TRUE, fields |-> fs] :
                  fs \in FieldLists}

InitParse ==
  /\ arg \in Args
  /\ config = EmptyMap
  /\ last = NoCall
  /\ hubSucceeded = FALSE
  /\ azureAccountExtension = TRUE
  /\ InitOperator
  /\ InitDeploy

\* IoTHub.provision() with a toolkit that answers with a hub whose
\* connection string is arg
ParseProvisionCall ==
  /\ last.op = "none"
  /\ \E selection \in {"select", "create"} :
       LET hub == Hub(arg.text, TRUE, <<"sb://e1">>, <<"p1">>)
           r == IoTHubProvision(config, selection, TRUE,
                                [kind |-> "hub", hub |-> hub])
       IN /\ last' = r[1]
          /\ config' = r[2]
          /\ hubSucceeded' = (r[1].outcome = "true")
          /\ UNCHANGED <<azureAccountExtension, arg, operatorVars, deployVars>>

NextParse == ParseProvisionCall

SpecParse == InitParse /\ [][NextParse]_vars

\* the fields of a built connection string whose key is SharedAccessKey
KeyFields == {i \in 1..Len(arg.fields) : arg.fields[i].key = <<"SharedAccessKey">>}

\* C2: for a (non-empty) connection string, the derived
\* eventHubConnectionString is 'Endpoint=' + endpoint +
\* ';SharedAccessKeyName=iothubowner;SharedAccessKey=' + K with K the text after
\* the first 'SharedAccessKey=' up to the next ';' or the end, which for a
\* string built from key=value fields is the value of its first SharedAccessKey
\* field and never that of a SharedAccessKeyName field; without
\* 'SharedAccessKey=' the call throws 'Cannot parse shared access key'
EventHubStringDerivation ==
  (HubCall /\ arg.text # <<>>) =>
    /\ IF HasKeyField(arg.text)
       THEN /\ last.outcome = "true"
            /\ config["iotHubConnectionString"] = arg.text
            /\ config["eventHubConnectionString"] =
                 <<"Endpoint=", "sb://e1",
                   ";SharedAccessKeyName=iothubowner;SharedAccessKey=">>
                   \o KeyFieldValue(arg.text)
       ELSE /\ last.outcome = "throw"
            /\ last.error = "Cannot parse shared access key"
            /\ config = EmptyMap
    /\ arg.built =>
         /\ HasKeyField(arg.text) = (KeyFields # {})
         /\ KeyFields # {} =>
              LET first == CHOOSE i \in KeyFields : \A j \in KeyFields : i <= j
              IN KeyFieldValue(arg.text) = arg.fields[first].value

\* a SharedAccessKeyName field stands before the SharedAccessKey field and
\* the key derived is the latter's value
KeyAfterKeyName ==
  /\ HubCall /\ last.outcome = "true"
  /\ arg.built /\ Len(arg.fields) = 2
  /\ arg.fields[1] = [key |-> <<"SharedAccessKey", "Name">>,
                      value |-> <<"iothubowner">>]
  /\ arg.fields[2] = [key |-> <<"SharedAccessKey">>, value |-> <<"k", "=">>]
  /\ config["eventHubConnectionString"] =
       <<"Endpoint=", "sb://e1",
         ";SharedAccessKeyName=iothubowner;SharedAccessKey=", "k", "=">>

---------------------------------------------------------------------------
(* SpecOperator: the AzureOperator commands.  IoTProject and ExceptionHelper *)
(* are not part of the sources at hand: an IoTProject method is an async     *)
(* function that settles at the call or later, and logError may return or    *)
(* throw.                                                                    *)

Settled == {"resolved", "rejected"}

\* new IoTProject() after project.load(rootPath) and project.provision()
\* have been called, neither awaited:
\*   load, provision, deploy: "none" (never called), "pending" or settled
\*   loadSettledFirst: load had settled when provision() was called
Project(load, provision) ==
  [load |-> load, provision |-> provision, deploy |-> "none",
   loadSettledFirst |-> load \in Settled]

\* what one command invocation did: project is the index of the IoTProject it
\* created, 0 when it created none
Invocation(command, root, threw, project) ==
  [command |-> command, root |-> root, threw |-> threw, project |-> project]

\* ExceptionHelper.logError(message, true) returns or throws
LogErrorThrows == BOOLEAN

\* AzureOperator.Provision(context): the body holds no await, so it runs to
\* its end in one step
OperatorProvision ==
  /\ Len(opLog) < MaxInvocations
  /\ \E logErrorThrows \in LogErrorThrows,
        load \in {"pending"} \cup Settled,
        provision \in {"pending"} \cup Settled :
       IF ~rootPath /\ logErrorThrows
       THEN /\ opLog' = Append(opLog, Invocation("Provision", rootPath, TRUE, 0))
            /\ UNCHANGED projects
       ELSE /\ projects' = Append(projects, Project(load, provision))
            /\ opLog' = Append(opLog, Invocation("Provision", rootPath, FALSE,
                                                  Len(projects) + 1))
  /\ UNCHANGED <<rootPath, hubVars, deployVars>>

\* AzureOperator.Deploy(context): the body is empty
OperatorDeploy ==
  /\ Len(opLog) < MaxInvocations
  /\ opLog' = Append(opLog, Invocation("Deploy", rootPath, FALSE, 0))
  /\ UNCHANGED <<rootPath, projects, hubVars, deployVars>>

\* the promise of a pending project.load() settles
LoadSettles ==
  \E p \in DOMAIN projects, result \in Settled :
    /\ projects[p].load = "pending"
    /\ projects' = [projects EXCEPT ![p].load = result]
    /\ UNCHANGED <<rootPath, opLog, hubVars, deployVars>>

\* the promise of a pending project.provision() settles
ProvisionSettles ==
  \E p \in DOMAIN projects, result \in Settled :
    /\ projects[p].provision = "pending"
    /\ projects' = [projects EXCEPT ![p].provision = result]
    /\ UNCHANGED <<rootPath, opLog, hubVars, deployVars>>

\* the user opens or closes the workspace folder: vscode.workspace.rootPath
\* becomes defined or undefined
WorkspaceChanges ==
  /\ rootPath' = ~rootPath
  /\ UNCHANGED <<projects, opLog, hubVars, deployVars>>

InitOperatorAny ==
  /\ InitHub
  /\ azureAccountExtension = TRUE
  /\ InitOperator
  /\ InitDeploy

NextOperator ==
  \/ WorkspaceChanges
  \/ OperatorProvision
  \/ OperatorDeploy
  \/ LoadSettles
  \/ ProvisionSettles

SpecOperator == InitOperatorAny /\ [][NextOperator]_vars

\* C4: in AzureOperator.Provision, project.provision() starts only after
\* project.load(rootPath) has completed, and neither is started when no
\* workspace root path is available
ProvisionIsSequential ==
  \A i \in DOMAIN opLog :
    opLog[i].command = "Provision" =>
      IF opLog[i].root
      THEN opLog[i].project # 0 =>
             projects[opLog[i].project].loadSettledFirst
      ELSE opLog[i].project = 0

\* C5: Provision loads the IoTProject and calls its provision(), and Deploy
\* loads the IoTProject and calls its deploy()
OperatorDrivesBoth ==
  \A i \in DOMAIN opLog :
    opLog[i].root =>
      /\ opLog[i].project # 0
      /\ projects[opLog[i].project].load # "none"
      /\ opLog[i].command = "Provision" =>
           projects[opLog[i].project].provision # "none"
      /\ opLog[i].command = "Deploy" =>
           projects[opLog[i].project].deploy # "none"

---------------------------------------------------------------------------
(* SpecDeploy: AzureFunctions.deploy() and its progress timer *)

Done == {"returned", "thrown"}

\* one invocation of deploy(): where it stands, its local deployPendding
\* (0 for null), the error azureFunctions.deploy rejected with and the error
\* deploy() threw
DeployCall(pc, deployPendding, commandError, error) ==
  [pc |-> pc, deployPendding |-> deployPendding,
   commandError |-> commandError, error |-> error]

\* one append to the output channel, and the timer whose callback made it
\* (0 when deploy() itself made it)
Appended(text, timer) == [text |-> text, timer |-> timer]

\* the '.' appended so far by the callback of timer t
DotsOf(out, t) ==
  Cardinality({i \in DOMAIN out : out[i].text = "." /\ out[i].timer = t})

TimerDots(out) ==
  Cardinality({i \in DOMAIN out : out[i].text = "." /\ out[i].timer # 0})

CommandErrors == {"deploy failed", "not signed in"}

\* a slip: the catch block rethrows without clearing the timer
IntervalsAfterCatchLeak(ivs, ch, deployPendding) == ivs

\* if (this.channel && deployPendding) clearInterval(deployPendding), in catch
IntervalsAfterCatch(ivs, ch, deployPendding) ==
  IF ch /\ deployPendding # 0 THEN ivs \ {deployPendding} ELSE ivs

\* if (this.channel && deployPendding) clearInterval(deployPendding), in try
IntervalsAfterTry(ivs, ch, deployPendding) ==
  IF ch /\ deployPendding # 0 THEN ivs \ {deployPendding} ELSE ivs

\* this.channel.appendLine('.') under the same condition
OutputAfterClear(out, ch, deployPendding) ==
  IF ch /\ deployPendding # 0 THEN Append(out, Appended(".\n", 0)) ELSE out

\* deploy() up to its await of azureFunctions.deploy
DeployStarts ==
  /\ Len(calls) < MaxCalls
  /\ LET t == Len(calls) + 1
     IN IF channel
        THEN /\ output' = Append(output,
                   Appended("Deploying Azure Functions App...\n", 0))
             /\ intervals' = intervals \cup {t}
             /\ calls' = Append(calls, DeployCall("awaiting", t, "", ""))
        ELSE /\ calls' = Append(calls, DeployCall("awaiting", 0, "", ""))
             /\ UNCHANGED <<output, intervals>>
  /\ UNCHANGED <<channel, hubVars, operatorVars>>

\* the callback of an active interval: this.channel.append('.')
TimerFires ==
  \E t \in intervals :
    /\ TimerDots(output) < MaxDots
    /\ output' = Append(output, Appended(".", t))
    /\ UNCHANGED <<channel, calls, intervals, hubVars, operatorVars>>

\* azureFunctions.deploy resolves: the rest of the try block
DeployCommandResolves ==
  \E c \in DOMAIN calls :
    /\ calls[c].pc = "awaiting"
    /\ intervals' = IntervalsAfterTry(intervals, channel,
                                      calls[c].deployPendding)
    /\ output' = OutputAfterClear(output, channel, calls[c].deployPendding)
    /\ calls' = [calls EXCEPT ![c].pc = "returned"]
    /\ UNCHANGED <<channel, hubVars, operatorVars>>

\* azureFunctions.deploy rejects: the catch block
DeployCommandRejects ==
  \E c \in DOMAIN calls, e \in CommandErrors :
    /\ calls[c].pc = "awaiting"
    /\ intervals' = IntervalsAfterCatch(intervals, channel,
                                        calls[c].deployPendding)
    /\ output' = OutputAfterClear(output, channel, calls[c].deployPendding)
    /\ calls' = [calls EXCEPT ![c].pc = "thrown",
                              ![c].commandError = e,
                              ![c].error = e]
    /\ UNCHANGED <<channel, hubVars, operatorVars>>

InitDeployAny ==
  /\ InitHub
  /\ azureAccountExtension = TRUE
  /\ InitOperator
  /\ channel \in BOOLEAN
  /\ calls = <<>>
  /\ intervals = {}
  /\ output = <<>>

NextDeploy ==
  \/ DeployStarts
  \/ TimerFires
  \/ DeployCommandResolves
  \/ DeployCommandRejects

SpecDeploy == InitDeployAny /\ [][NextDeploy]_vars

\* C10: once a deploy() call has returned true or thrown, the interval it
\* started is no longer active and appends no further '.', and the error it
\* throws is the error azureFunctions.deploy rejected with
TimerClearedOnExit ==
  /\ [](\A c \in DOMAIN calls :
          calls[c].pc \in Done =>
            /\ calls[c].deployPendding \notin intervals
            /\ calls[c].pc = "thrown" =>
                 /\ calls[c].error = calls[c].commandError
                 /\ calls[c].error \in CommandErrors)
  /\ [][\A c \in DOMAIN calls :
          calls[c].pc \in Done =>
            DotsOf(output', calls[c].deployPendding)
              = DotsOf(output, calls[c].deployPendding)]_vars

\* a call that threw after its timer had appended a '.', while the timer of
\* another call is still running
ThrownWithTimerRun ==
  \E c, d \in DOMAIN calls :
    /\ calls[c].pc = "thrown"
    /\ DotsOf(output, calls[c].deployPendding) > 0
    /\ calls[d].pc = "awaiting"
    /\ calls[d].deployPendding \in intervals

===========================================================================
